---------------------------- MODULE Spec2Model ----------------------------
(***************************************************************************)
(* Model of app.py: generate_interactive_map (the map document compiler),  *)
(* find_popup_image (the preview resolver) and the client-side script of   *)
(* the compiled document (showTooltip / hideTooltip).                      *)
(*                                                                         *)
(* Text is modelled as a sequence of one-character strings, so that        *)
(* str.strip, str.lower, str.startswith and str.replace are computed, not  *)
(* assumed.  Fixed pieces of template text and the character reference     *)
(* "&#39;" are single tokens of such a sequence.                           *)
(***************************************************************************)
EXTENDS Integers, Sequences, FiniteSets, TLC

VARIABLES
    csv_state,      \* spaces.csv: "absent", "unparseable" or "parseable"
    csv_header,     \* the header row of spaces.csv as written (raw names)
    csv_rows,       \* the data rows of spaces.csv, one cell per header column
    image_file,     \* image1.jpg: [exists, w, h] (intrinsic pixel size)
    disk,           \* the preview image paths that exist on disk
    pc,             \* position inside generate_interactive_map
    df_columns,     \* df.columns after normalisation
    missing_cols,   \* the required columns not in df.columns
    img_src,        \* the background image's data URI
    index,          \* df.iterrows(): the next row to compile
    polygons_html,  \* the region fragments emitted so far
    result,         \* what generate_interactive_map returned
    io,             \* the files the call has touched, in order
    innerWidth,     \* window.innerWidth of the rendering browser
    innerHeight,    \* window.innerHeight
    tooltip,        \* the #tooltip element: display, content, left/top
    lastEvent       \* the last pointer event dispatched to a region

compilerVars == <<csv_state, csv_header, csv_rows, image_file, disk, pc,
                  df_columns, missing_cols, img_src, index, polygons_html,
                  result, io>>
browserVars == <<innerWidth, innerHeight, tooltip, lastEvent>>
vars == <<csv_state, csv_header, csv_rows, image_file, disk, pc,
          df_columns, missing_cols, img_src, index, polygons_html,
          result, io, innerWidth, innerHeight, tooltip, lastEvent>>

---------------------------------------------------------------------------
(* Bounds of the model *)

MaxRows == 2

---------------------------------------------------------------------------
(* Text helpers: Python's str methods on sequences of characters *)

Min(S) == CHOOSE x \in S : \A y \in S : x <= y
Max(S) == CHOOSE x \in S : \A y \in S : x >= y

\* str.lower on the characters the inputs use
LowerChar(c) ==
    CASE c = "A" -> "a" [] c = "C" -> "c" [] c = "E" -> "e" [] c = "L" -> "l"
      [] c = "P" -> "p" [] c = "R" -> "r" [] c = "S" -> "s" [] c = "U" -> "u"
      [] OTHER -> c

Lower(s) == [i \in 1..Len(s) |-> LowerChar(s[i])]

\* str.strip: surrounding whitespace removed, inner whitespace kept
Strip(s) ==
    LET keep == {i \in 1..Len(s) : s[i] # " "}
    IN  IF keep = {} THEN <<>> ELSE SubSeq(s, Min(keep), Max(keep))

\* str.startswith
StartsWith(s, p) == Len(s) >= Len(p) /\ SubSeq(s, 1, Len(p)) = p

\* s.replace(c, t): every occurrence of the character c becomes the token t
Replace(s, c, t) == [i \in 1..Len(s) |-> IF s[i] = c THEN t ELSE s[i]]

\* A cell of the data frame: text, a number, or NaN (an empty cell)
Text(s) == [t |-> "str", s |-> s]
Num(s) == [t |-> "num", s |-> s]
NaN == [t |-> "nan", s |-> <<>>]

\* str(value) of a cell
PyStr(cell) == IF cell.t = "nan" THEN <<"n", "a", "n">> ELSE cell.s

---------------------------------------------------------------------------
(* find_popup_image and get_base64_of_bin_file *)

extensions == <<".jpg", ".jpeg", ".png">>

NoFile == <<>>

\* find_popup_image returning the last candidate that exists, not the first
find_popup_image_last(image_name, files) ==
    IF image_name.t # "str" THEN NoFile
    ELSE LET clean_name == Strip(image_name.s)
             hits == {k \in 1..Len(extensions) :
                        Append(clean_name, extensions[k]) \in files}
         IN  IF hits = {} THEN NoFile
             ELSE Append(clean_name, extensions[Max(hits)])

\* find_popup_image: None (NoFile) or the first existing candidate path
find_popup_image(image_name, files) ==
    IF image_name.t # "str" THEN NoFile
    ELSE LET clean_name == Strip(image_name.s)
             hits == {k \in 1..Len(extensions) :
                        Append(clean_name, extensions[k]) \in files}
         IN  IF hits = {} THEN NoFile
             ELSE Append(clean_name, extensions[Min(hits)])

\* the files find_popup_image and get_base64_of_bin_file touch for one row:
\* os.path.exists on each candidate up to the first hit, then open on the hit
PreviewIo(image_name, files) ==
    IF image_name.t # "str" THEN <<>>
    ELSE LET clean_name == Strip(image_name.s)
             hits == {k \in 1..Len(extensions) :
                        Append(clean_name, extensions[k]) \in files}
             last == IF hits = {} THEN Len(extensions) ELSE Min(hits)
         IN  [k \in 1..last |-> <<"exists", Append(clean_name, extensions[k])>>]
             \o (IF hits = {} THEN <<>>
                 ELSE << <<"open", Append(clean_name, extensions[last])>> >>)

\* the data URI built from get_base64_of_bin_file(path)
DataUri(path) == <<"data:image/jpeg;base64,">> \o path

Placeholder == <<"https://via.placeholder.com/300x200?text=No+Image">>

---------------------------------------------------------------------------
(* generate_interactive_map: the pure parts *)

coordinates == <<"c", "o", "o", "r", "d", "i", "n", "a", "t", "e", "s">>
link_url == <<"l", "i", "n", "k", " ", "u", "r", "l">>
space == <<"s", "p", "a", "c", "e">>
actual_site == <<"a", "c", "t", "u", "a", "l", " ", "s", "i", "t", "e">>
capacity == <<"c", "a", "p", "a", "c", "i", "t", "y">>
indoor_outdoor == <<"i", "n", "d", "o", "o", "r", "/", "o", "u", "t", "d", "o", "o", "r">>

required_cols == <<coordinates, link_url, space, actual_site>>

\* df.columns.str.strip() only: the case of the header kept
NormalizeNoLower(header) == [i \in 1..Len(header) |-> Strip(header[i])]

\* df.columns.str.strip().str.lower()
Normalize(header) == [i \in 1..Len(header) |-> Lower(Strip(header[i]))]

InSeq(x, s) == \E i \in 1..Len(s) : s[i] = x

\* [c for c in required_cols if c not in df.columns]
Missing(columns) == SelectSeq(required_cols, LAMBDA c : ~InSeq(c, columns))

\* row.get(name, default)
Get(row, columns, name, default) ==
    IF InSeq(name, columns)
    THEN row[CHOOSE i \in 1..Len(columns) : columns[i] = name]
    ELSE default

Http == <<"h", "t", "t", "p", ":", "/", "/">>
Https == <<"h", "t", "t", "p", "s", ":", "/", "/">>

\* the link of a row, lines 125-131
FormatLink(raw_link) ==
    IF raw_link # <<>> /\ ~StartsWith(raw_link, Http) /\ ~StartsWith(raw_link, Https)
    THEN Https \o raw_link
    ELSE raw_link

\* title.replace("'", "&#39;")
Escape(s) == Replace(s, "'", "&#39;")

\* the region fragment of one row, lines 124-160
region_fragment(row, columns, files) ==
    LET coords == PyStr(Get(row, columns, coordinates, Text(<<>>)))
        raw_link == PyStr(Get(row, columns, link_url, Text(<<"#">>)))
        title == PyStr(Get(row, columns, space, Text(<<>>)))
        cap == Get(row, columns, capacity, Text(<<>>))
        site_type == Get(row, columns, indoor_outdoor, Text(<<>>))
        desc == <<"Capacity: ">> \o PyStr(cap) \o <<" | Type: ">> \o PyStr(site_type)
        popup_img_path == find_popup_image(Get(row, columns, actual_site, Text(<<>>)), files)
    IN  [href |-> FormatLink(raw_link),
         points |-> coords,
         title |-> Escape(title),
         desc |-> Escape(desc),
         img |-> IF popup_img_path # NoFile THEN DataUri(popup_img_path)
                 ELSE Placeholder]

svg_width == 1920
svg_height == 1305

\* the frame written into the viewBox, lines 118-119 and 233
ViewBoxFromImage(image) == <<image.w, image.h>>

ViewBox(image) == <<svg_width, svg_height>>

---------------------------------------------------------------------------
(* The inputs: sample tables, images and preview files *)

HeaderVariants ==
    <<{<<" ", "C", "o", "o", "r", "d", "i", "n", "a", "t", "e", "s", " ">>},
      {<<"L", "i", "n", "k", " ", "U", "R", "L">>, <<"l", "i", "n", "k", "_", "u", "r", "l">>},
      {<<"S", "P", "A", "C", "E">>, <<"n", "a", "m", "e">>},
      {<<"A", "c", "t", "u", "a", "l", " ", "S", "i", "t", "e", " ">>, <<"s", "i", "t", "e">>},
      {capacity},
      {indoor_outdoor, <<"t", "y", "p", "e">>}>>

\* header rows: one spelling per column; no two columns normalise alike
HeaderRows ==
    {h \in [1..Len(HeaderVariants) -> UNION {HeaderVariants[k] : k \in 1..Len(HeaderVariants)}] :
        \A k \in 1..Len(HeaderVariants) : h[k] \in HeaderVariants[k]}

Poly == Text(<<"1", ",", "1", " ", "9", ",", "1", " ", "9", ",", "9">>)
Hall == <<"h", "a", "l", "l">>
\* the label It's a "test"
ItsATest == <<"I", "t", "'", "s", " ", "a", " ", "\"", "t", "e", "s", "t", "\"">>

\* data rows: cells for coordinates, link, space, actual site, capacity, type
SampleRows ==
    { <<Poly, Text(<<"x", ".", "c">>), Text(<<"A">>), Text(Hall), Num(<<"5">>), Text(<<"i", "n">>)>>,
      <<Poly, Text(Http \o <<"x">>), Text(ItsATest), Text(<<" ", "h", "a", "l", "l", " ">>), NaN, Text(<<"i", "n">>)>>,
      <<Poly, Text(Https \o <<"x">>), Text(<<"B">>), Text(<<"g", "y", "m">>), Num(<<"5">>), Text(<<"O", "'", "B">>)>>,
      <<NaN, NaN, NaN, NaN, Num(<<"5">>), Text(<<"o", "u", "t">>)>> }

RowSeqs == UNION {[1..n -> SampleRows] : n \in 0..MaxRows}

PreviewFiles == {Append(Hall, extensions[k]) : k \in 1..Len(extensions)}

Images == {[exists |-> FALSE, w |-> 0, h |-> 0],
           [exists |-> TRUE, w |-> 1920, h |-> 1305],
           [exists |-> TRUE, w |-> 800, h |-> 600]}

NoResult == [kind |-> "none"]

---------------------------------------------------------------------------
(* generate_interactive_map, step by step *)

BrowserIdle ==
    /\ innerWidth = 0
    /\ innerHeight = 0
    /\ tooltip = [display |-> "none", name |-> <<>>, desc |-> <<>>, img |-> <<>>,
                  left |-> 0, top |-> 0]
    /\ lastEvent = [type |-> "none", region |-> 0]

Init ==
    /\ csv_state \in {"absent", "unparseable", "parseable"}
    /\ csv_header \in IF csv_state = "parseable" THEN HeaderRows ELSE {<<>>}
    /\ csv_rows \in IF csv_state = "parseable" THEN RowSeqs ELSE {<<>>}
    /\ image_file \in Images
    /\ disk \in SUBSET PreviewFiles
    /\ pc = "load"
    /\ df_columns = <<>>
    /\ missing_cols = <<>>
    /\ img_src = <<>>
    /\ index = 1
    /\ polygons_html = <<>>
    /\ result = NoResult
    /\ io = <<>>
    /\ BrowserIdle

\* the uncaught exception a call would end with, were one to escape
Raised == [kind |-> "raised"]

\* lines 87-94 without the except clauses
LoadDataUncaught ==
    /\ pc = "load"
    /\ io' = Append(io, <<"read_csv", <<"spaces.csv">> >>)
    /\ IF csv_state = "parseable"
       THEN /\ df_columns' = Normalize(csv_header)
            /\ pc' = "check"
            /\ result' = result
       ELSE /\ df_columns' = df_columns
            /\ pc' = "done"
            /\ result' = Raised
    /\ UNCHANGED <<csv_state, csv_header, csv_rows, image_file, disk, missing_cols,
                   img_src, index, polygons_html>>
    /\ UNCHANGED browserVars

\* 1. Load Data, lines 87-94
LoadData ==
    /\ pc = "load"
    /\ io' = Append(io, <<"read_csv", <<"spaces.csv">> >>)
    /\ IF csv_state = "absent"
       THEN /\ result' = [kind |-> "DatasetNotFound"]
            /\ pc' = "done"
            /\ df_columns' = df_columns
       ELSE IF csv_state = "unparseable"
       THEN /\ result' = [kind |-> "DatasetParseError"]
            /\ pc' = "done"
            /\ df_columns' = df_columns
       ELSE /\ df_columns' = Normalize(csv_header)
            /\ pc' = "check"
            /\ result' = result
    /\ UNCHANGED <<csv_state, csv_header, csv_rows, image_file, disk, missing_cols,
                   img_src, index, polygons_html>>
    /\ UNCHANGED browserVars

\* the column check made after the background image check
CheckColumnsAfterImage ==
    /\ pc = "check"
    /\ missing_cols' = Missing(df_columns)
    /\ IF ~image_file.exists
       THEN /\ result' = [kind |-> "ImageNotFound"]
            /\ io' = Append(io, <<"exists", <<"image1.jpg">> >>)
            /\ pc' = "done"
       ELSE IF missing_cols' # <<>>
       THEN /\ result' = [kind |-> "SchemaError", missing |-> missing_cols',
                          found |-> df_columns]
            /\ io' = Append(io, <<"exists", <<"image1.jpg">> >>)
            /\ pc' = "done"
       ELSE /\ result' = result
            /\ io' = io
            /\ pc' = "image"
    /\ UNCHANGED <<csv_state, csv_header, csv_rows, image_file, disk, df_columns,
                   img_src, index, polygons_html>>
    /\ UNCHANGED browserVars

\* CHECK COLUMNS, lines 97-107
CheckColumns ==
    /\ pc = "check"
    /\ missing_cols' = Missing(df_columns)
    /\ IF missing_cols' # <<>>
       THEN /\ result' = [kind |-> "SchemaError", missing |-> missing_cols',
                          found |-> df_columns]
            /\ pc' = "done"
       ELSE /\ result' = result
            /\ pc' = "image"
    /\ UNCHANGED <<csv_state, csv_header, csv_rows, image_file, disk, df_columns,
                   img_src, index, polygons_html, io>>
    /\ UNCHANGED browserVars

\* 2. Encode Background Image, lines 110-114
EncodeBackground ==
    /\ pc = "image"
    /\ IF image_file.exists
       THEN /\ img_src' = DataUri(<<"image1.jpg">>)
            /\ io' = io \o << <<"exists", <<"image1.jpg">> >>, <<"open", <<"image1.jpg">> >> >>
            /\ pc' = "rows"
            /\ result' = result
       ELSE /\ img_src' = img_src
            /\ io' = Append(io, <<"exists", <<"image1.jpg">> >>)
            /\ pc' = "done"
            /\ result' = [kind |-> "ImageNotFound"]
    /\ UNCHANGED <<csv_state, csv_header, csv_rows, image_file, disk, df_columns,
                   missing_cols, index, polygons_html>>
    /\ UNCHANGED browserVars

\* the loop body skipping the rows whose coordinates cell is empty
CompileRowSkipEmpty ==
    /\ pc = "rows"
    /\ index <= Len(csv_rows)
    /\ polygons_html' =
          IF Get(csv_rows[index], df_columns, coordinates, NaN) = NaN
          THEN polygons_html
          ELSE Append(polygons_html, region_fragment(csv_rows[index], df_columns, disk))
    /\ index' = index + 1
    /\ UNCHANGED <<csv_state, csv_header, csv_rows, image_file, disk, pc, df_columns,
                   missing_cols, img_src, result>>
    /\ io' = io \o PreviewIo(Get(csv_rows[index], df_columns, actual_site, Text(<<>>)), disk)
    /\ UNCHANGED browserVars

\* 3. one iteration of for index, row in df.iterrows(), lines 123-160
CompileRow ==
    /\ pc = "rows"
    /\ index <= Len(csv_rows)
    /\ polygons_html' =
          Append(polygons_html, region_fragment(csv_rows[index], df_columns, disk))
    /\ index' = index + 1
    /\ UNCHANGED <<csv_state, csv_header, csv_rows, image_file, disk, pc, df_columns,
                   missing_cols, img_src, result>>
    /\ io' = io \o PreviewIo(Get(csv_rows[index], df_columns, actual_site, Text(<<>>)), disk)
    /\ UNCHANGED browserVars

\* 4. Construct Final HTML and return it, lines 163-276
ConstructHtml ==
    /\ pc = "rows"
    /\ index > Len(csv_rows)
    /\ result' = [kind |-> "Document", img_src |-> img_src,
                  viewBox |-> ViewBox(image_file),
                  polygons |-> polygons_html, tooltips |-> 1]
    /\ pc' = "done"
    /\ UNCHANGED <<csv_state, csv_header, csv_rows, image_file, disk, df_columns,
                   missing_cols, img_src, index, polygons_html, io>>
    /\ UNCHANGED browserVars

---------------------------------------------------------------------------
(* The compiled document in a browser: the onmousemove attribute of a      *)
(* region, the HTML parser and script compiler that read it, and the       *)
(* document's script                                                       *)

ViewportW == 1000
ViewportH == 800

tooltipW == 260
tooltipH == 250
TooltipOffset == 15

\* the text between onmousemove=" and the template's closing ", line 156
OnMouseMoveAttr(frag) ==
    <<"showTooltip(evt, ", "'">> \o frag.title \o <<"'", ", ", "'">> \o frag.desc
        \o <<"'", ", ", "'">> \o frag.img \o <<"'", ")">>

\* the HTML tokenizer: a double-quoted attribute value ends at the first "
AttrValue(s) ==
    LET q == {i \in 1..Len(s) : s[i] = "\""}
    IN  IF q = {} THEN s ELSE SubSeq(s, 1, Min(q) - 1)

\* the HTML parser: character references in text and attribute values decoded
HtmlDecode(s) == Replace(s, "&#39;", "'")

\* the next ' at or after position from; 0 when there is none
NextQuote(s, from) ==
    LET q == {i \in from..Len(s) : s[i] = "'"}
    IN  IF q = {} THEN 0 ELSE Min(q)

NoCall == [ok |-> FALSE, name |-> <<>>, desc |-> <<>>, imgUrl |-> <<>>]

At(s, i) == IF i \in 1..Len(s) THEN s[i] ELSE "<eof>"

\* the script compiler on an event handler body: the call
\* showTooltip(evt, '...', '...', '...') with its three string literals, each
\* ended by the first ' after its opening one; anything else is a SyntaxError
\* and the element gets no handler
ParseCall(s) ==
    LET a1 == NextQuote(s, 3)
        a2 == IF a1 = 0 THEN 0 ELSE NextQuote(s, a1 + 3)
        a3 == IF a2 = 0 THEN 0 ELSE NextQuote(s, a2 + 3)
    IN  IF /\ At(s, 1) = "showTooltip(evt, " /\ At(s, 2) = "'"
           /\ a1 # 0 /\ At(s, a1 + 1) = ", " /\ At(s, a1 + 2) = "'"
           /\ a2 # 0 /\ At(s, a2 + 1) = ", " /\ At(s, a2 + 2) = "'"
           /\ a3 # 0 /\ At(s, a3 + 1) = ")" /\ Len(s) = a3 + 1
        THEN [ok |-> TRUE, name |-> SubSeq(s, 3, a1 - 1),
              desc |-> SubSeq(s, a1 + 3, a2 - 1),
              imgUrl |-> SubSeq(s, a2 + 3, a3 - 1)]
        ELSE NoCall

\* the handler the browser attaches to a region for mousemove
Handler(frag) == ParseCall(HtmlDecode(AttrValue(OnMouseMoveAttr(frag))))

\* element.innerHTML = s: the text the element then shows
InnerText(s) == HtmlDecode(s)

\* lines 256-266: the placement of the tooltip for a pointer at <<x, y>>
Place(x, y) ==
    LET fx == IF x + tooltipW > innerWidth THEN x - tooltipW ELSE x
        fy == IF y + tooltipH > innerHeight THEN y - tooltipH ELSE y
    IN  <<fx + TooltipOffset, fy + TooltipOffset>>

\* function showTooltip(evt, name, desc, imgUrl), lines 250-267
showTooltip(x, y, name, desc, imgUrl) ==
    [display |-> "block", name |-> name, desc |-> desc, img |-> imgUrl,
     left |-> Place(x, y)[1], top |-> Place(x, y)[2]]

\* function hideTooltip(), lines 269-271
hideTooltip == [tooltip EXCEPT !.display = "none"]

\* pointer positions inside the viewport, around the edges the handler tests
PointerXs ==
    {0, innerWidth - tooltipW - TooltipOffset, innerWidth - tooltipW - TooltipOffset + 1,
     innerWidth - tooltipW, innerWidth - tooltipW + 1, innerWidth - TooltipOffset,
     innerWidth}
PointerYs ==
    {0, innerHeight - tooltipH - TooltipOffset, innerHeight - tooltipH - TooltipOffset + 1,
     innerHeight - tooltipH, innerHeight - tooltipH + 1, innerHeight - TooltipOffset,
     innerHeight}

Rendered == pc = "done" /\ result.kind = "Document"

\* a mousemove event dispatched to region i with the pointer at <<x, y>>; the
\* browser dispatches mouseout to the region left before it
MouseMove(i, x, y) ==
    /\ Rendered
    /\ i \in 1..Len(result.polygons)
    /\ lastEvent.type = "mousemove" => lastEvent.region = i
    /\ lastEvent' = [type |-> "mousemove", region |-> i]
    /\ LET h == Handler(result.polygons[i])
       IN  tooltip' = IF h.ok THEN showTooltip(x, y, h.name, h.desc, h.imgUrl)
                      ELSE tooltip
    /\ UNCHANGED compilerVars
    /\ UNCHANGED <<innerWidth, innerHeight>>

\* a mouseout event dispatched to the region the pointer was over
MouseOut ==
    /\ Rendered
    /\ lastEvent.type = "mousemove"
    /\ lastEvent' = [type |-> "mouseout", region |-> lastEvent.region]
    /\ tooltip' = hideTooltip
    /\ UNCHANGED compilerVars
    /\ UNCHANGED <<innerWidth, innerHeight>>

\* a valid table with every column, the background image and hall.png on disk
InitUI ==
    /\ csv_state = "parseable"
    /\ csv_header = required_cols \o <<capacity, indoor_outdoor>>
    /\ csv_rows \in RowSeqs
    /\ image_file = [exists |-> TRUE, w |-> 1920, h |-> 1305]
    /\ disk = {Append(Hall, ".png")}
    /\ pc = "load"
    /\ df_columns = <<>>
    /\ missing_cols = <<>>
    /\ img_src = <<>>
    /\ index = 1
    /\ polygons_html = <<>>
    /\ result = NoResult
    /\ io = <<>>
    /\ innerWidth = ViewportW
    /\ innerHeight = ViewportH
    /\ tooltip = [display |-> "none", name |-> <<>>, desc |-> <<>>, img |-> <<>>,
                  left |-> 0, top |-> 0]
    /\ lastEvent = [type |-> "none", region |-> 0]

Next ==
    \/ LoadData
    \/ CheckColumns
    \/ EncodeBackground
    \/ CompileRow
    \/ ConstructHtml

Spec == Init /\ [][Next]_vars

NextUI ==
    \/ LoadData
    \/ CheckColumns
    \/ EncodeBackground
    \/ CompileRow
    \/ ConstructHtml
    \/ \E i \in 1..MaxRows + 1, x \in PointerXs, y \in PointerYs : MouseMove(i, x, y)
    \/ MouseOut

SpecUI == InitUI /\ [][NextUI]_vars

---------------------------------------------------------------------------
(* The claims *)

Returned == pc = "done"

\* the header names trimmed and lower-cased, as a set
NormalizedHeaders == {Lower(Strip(csv_header[k])) : k \in 1..Len(csv_header)}

SchemaValid ==
    /\ csv_state = "parseable"
    /\ \A k \in 1..Len(required_cols) : required_cols[k] \in NormalizedHeaders

\* the cell of data row i in the column whose normalised header is name
Cell(i, name) ==
    csv_rows[i][CHOOSE k \in 1..Len(csv_header) : Lower(Strip(csv_header[k])) = name]

\* C1: a table that loads and passes schema validation, with the background
\* image present, compiles to a document with exactly one region fragment per
\* data row, in row order: fragment i carries the coordinates and label of row i
C1_OneFragmentPerRowInOrder ==
    (Returned /\ SchemaValid /\ image_file.exists) =>
        /\ result.kind = "Document"
        /\ Len(result.polygons) = Len(csv_rows)
        /\ \A i \in 1..Len(csv_rows) :
              /\ result.polygons[i].points = PyStr(Cell(i, coordinates))
              /\ result.polygons[i].title = Replace(PyStr(Cell(i, space)), "'", "&#39;")

C1_Witness ==
    /\ Returned
    /\ result.kind = "Document"
    /\ Len(csv_rows) = 2
    /\ csv_rows[1] # csv_rows[2]
    /\ Cell(1, coordinates) = NaN
    /\ Len(result.polygons) = 2

\* C2: whatever the table and the background image are, the call returns a
\* document and raises nothing: an absent table gives the DatasetNotFound
\* document, an unparseable one the DatasetParseError document, and a valid
\* table with no background image the ImageNotFound document; until it returns
\* the call is at a position from which its next step can be taken
C2_AlwaysReturnsADocument ==
    /\ pc \in {"load", "check", "image", "rows", "done"}
    /\ pc = "rows" => index \in 1..Len(csv_rows) + 1
    /\ Returned =>
          /\ result.kind \in {"DatasetNotFound", "DatasetParseError", "SchemaError",
                              "ImageNotFound", "Document"}
          /\ csv_state = "absent" => result.kind = "DatasetNotFound"
          /\ csv_state = "unparseable" => result.kind = "DatasetParseError"
          /\ (SchemaValid /\ ~image_file.exists) => result.kind = "ImageNotFound"

C2_Witness ==
    /\ Returned
    /\ csv_state = "unparseable"
    /\ ~image_file.exists
    /\ result.kind = "DatasetParseError"

\* C3: once the columns are checked, the result is the SchemaError document if
\* and only if some required name is not among the trimmed, lower-cased headers;
\* the document lists exactly the missing required names and exactly the
\* normalised headers, so a header that differs from a required name only in
\* case or surrounding whitespace counts as present
C3_SchemaErrorIffMissing ==
    (csv_state = "parseable" /\ pc \notin {"load", "check"}) =>
        LET missing == {required_cols[k] : k \in 1..Len(required_cols)} \ NormalizedHeaders
        IN  /\ result.kind = "SchemaError" <=> missing # {}
            /\ result.kind = "SchemaError" =>
                  /\ {result.missing[k] : k \in 1..Len(result.missing)} = missing
                  /\ Len(result.missing) = Cardinality(missing)
                  /\ Len(result.found) = Len(csv_header)
                  /\ \A k \in 1..Len(csv_header) :
                        result.found[k] = Lower(Strip(csv_header[k]))

C3_Witness ==
    /\ Returned
    /\ result.kind = "SchemaError"
    /\ csv_header[1] = <<" ", "C", "o", "o", "r", "d", "i", "n", "a", "t", "e", "s", " ">>
    /\ csv_header[2] = <<"L", "i", "n", "k", " ", "U", "R", "L">>
    /\ result.missing = <<space, actual_site>>

\* C4: in the compiled document the link of row i is "#" when the row's link
\* cell is empty, the cell's text unchanged when it starts with http:// or
\* https://, and the text with https:// prepended otherwise
C4_LinkNormalization ==
    (Returned /\ result.kind = "Document") =>
        \A i \in 1..Len(csv_rows) :
            LET cell == Cell(i, link_url)
                href == result.polygons[i].href
            IN  IF cell.t = "nan" THEN href = <<"#">>
                ELSE IF StartsWith(cell.s, Http) \/ StartsWith(cell.s, Https)
                THEN href = cell.s
                ELSE href = Https \o cell.s

\* C5: the preview of row i is the first of name.jpg, name.jpeg, name.png that
\* exists, name being the trimmed reference; when none exists, or the reference
\* is not text, it is the placeholder image and the call still returns
C5_PreviewResolution ==
    (Returned /\ SchemaValid /\ image_file.exists) =>
        /\ result.kind = "Document"
        /\ \A i \in 1..Len(csv_rows) :
              LET cell == Cell(i, actual_site)
                  name == Strip(cell.s)
                  img == result.polygons[i].img
              IN  IF cell.t # "str" THEN img = Placeholder
                  ELSE IF Append(name, ".jpg") \in disk
                  THEN img = <<"data:image/jpeg;base64,">> \o Append(name, ".jpg")
                  ELSE IF Append(name, ".jpeg") \in disk
                  THEN img = <<"data:image/jpeg;base64,">> \o Append(name, ".jpeg")
                  ELSE IF Append(name, ".png") \in disk
                  THEN img = <<"data:image/jpeg;base64,">> \o Append(name, ".png")
                  ELSE img = Placeholder

C5_Witness ==
    /\ Returned
    /\ result.kind = "Document"
    /\ disk = PreviewFiles
    /\ Len(csv_rows) = 2
    /\ Cell(1, actual_site) = Text(<<" ", "h", "a", "l", "l", " ">>)
    /\ result.polygons[1].img = <<"data:image/jpeg;base64,">> \o Append(Hall, ".jpg")
    /\ Cell(2, actual_site) = NaN
    /\ result.polygons[2].img = Placeholder

\* C6: for every row of a compiled document, the label and the description do
\* not end the double-quoted onmousemove attribute nor a single-quoted string
\* literal of the call inside it, and the text the tooltip shows on a mousemove
\* over the row's region is the row's label and description
C6_EscapingKeepsContextAndText ==
    Rendered =>
        /\ \A i \in 1..Len(result.polygons) :
              LET attr == OnMouseMoveAttr(result.polygons[i])
              IN  /\ AttrValue(attr) = attr
                  /\ Handler(result.polygons[i]).ok
        /\ lastEvent.type = "mousemove" =>
              /\ tooltip.display = "block"
              /\ InnerText(tooltip.name) = PyStr(Cell(lastEvent.region, space))
              /\ InnerText(tooltip.desc) =
                    <<"Capacity: ">> \o PyStr(Cell(lastEvent.region, capacity))
                       \o <<" | Type: ">> \o PyStr(Cell(lastEvent.region, indoor_outdoor))

\* C7: whenever the tooltip is shown, its rectangle, from the left and top the
\* handler set and of the handler's tooltipW by tooltipH, ends inside the
\* viewport's right and bottom edges
C7_TooltipInsideViewport ==
    tooltip.display = "block" =>
        /\ tooltip.left + tooltipW <= innerWidth
        /\ tooltip.top + tooltipH <= innerHeight

C9_TooltipFollowsLastEvent ==
    Rendered =>
        /\ result.tooltips = 1
        /\ tooltip.display = "block" <=> lastEvent.type = "mousemove"
        /\ tooltip.display = "block" =>
              /\ InnerText(tooltip.name) = PyStr(Cell(lastEvent.region, space))
              /\ InnerText(tooltip.desc) =
                    <<"Capacity: ">> \o PyStr(Cell(lastEvent.region, capacity))
                       \o <<" | Type: ">> \o PyStr(Cell(lastEvent.region, indoor_outdoor))
              /\ tooltip.img = result.polygons[lastEvent.region].img

\* C10: the checks run in the order table, columns, background image and the
\* first failing one decides the result: an absent table gives the
\* DatasetNotFound document and a missing required column the SchemaError
\* document even when the image is absent too, with no region compiled and
\* the image neither looked for nor read
C10_FirstFailingCheckDecides ==
    /\ io # <<>> => io[1] = <<"read_csv", <<"spaces.csv">> >>
    /\ Returned =>
          /\ csv_state = "absent" => result.kind = "DatasetNotFound"
          /\ (csv_state = "parseable" /\ ~SchemaValid) => result.kind = "SchemaError"
          /\ result.kind \in {"DatasetNotFound", "DatasetParseError", "SchemaError"} =>
                /\ polygons_html = <<>>
                /\ index = 1
                /\ \A k \in 1..Len(io) : io[k][2] # <<"image1.jpg">>

C10_Witness ==
    /\ Returned
    /\ csv_state = "parseable"
    /\ ~SchemaValid
    /\ ~image_file.exists
    /\ result.kind = "SchemaError"
    /\ io = << <<"read_csv", <<"spaces.csv">> >> >>

===========================================================================
